---- MODULE Spec2Model ----
(***************************************************************************)
(* A model of src/apifixer.py: the retry decorator retry_async_safe, the   *)
(* scoped HTTP client APIClient, and the fan-out/gather orchestration      *)
(* fetch_demo run by main.                                                 *)
(*                                                                         *)
(* Four specifications share the variables:                                *)
(*   Spec       the program as main() runs it: fetch_demo opens two        *)
(*              clients, gathers five get_json calls, closes the clients.  *)
(*   SpecRetry  one APIClient and one get_json call driven by a caller,    *)
(*              with the parameters of retry_async_safe drawn from         *)
(*              bounded sets (the decorator is parametric in them).        *)
(*   SpecClient the same caller under get_json's own retry policy, who may *)
(*              also close a client that is not open.                      *)
(*   SpecAttempts  that caller under every policy of at least one attempt, *)
(*              with the transport's answer and the sleep's return fair.   *)
(*                                                                         *)
(* Durations are integers in units of 0.1 s.  The transport (httpx) is an  *)
(* external collaborator: what it answers to the n-th GET of a call is     *)
(* fixed by script, when it answers is left to the interleaving.           *)
(***************************************************************************)
EXTENDS Integers, Sequences, FiniteSets, TLC

VARIABLES
    policy,     \* arguments of retry_async_safe: [retries, delay, backoff]
    script,     \* script[c][n]: what the transport answers to attempt n of call c
    client,     \* client[k]: APIClient k: [handle, opened, released, exits]
    call,       \* call[c]: one invocation of the decorated get_json (a task)
    completed,  \* the calls that reached Succeeded or Failed, in completion order
    gather,     \* the future of asyncio.gather: [state, err]
    orch        \* fetch_demo / main: [pc, results, err, summary, done]

vars == <<policy, script, client, call, completed, gather, orch>>

----------------------------------------------------------------------------
(* Bounds of the model *)

\* largest `retries` drawn in SpecRetry
MaxRetries == 3
\* largest initial `delay` drawn in SpecRetry (units of 0.1 s)
MaxDelay == 3
\* largest `backoff` drawn in SpecRetry
MaxBackoff == 2
\* how many attempts the transport lets fail in one run of fetch_demo
MaxFaults == 3
\* how many times the caller of SpecRetry enters the client's scope
MaxOpens == 1
\* how many times the caller of SpecRetry runs __aexit__ on one client
MaxExits == 2

(* Program constants *)

\* @retry_async_safe(retries=3, ...) on get_json
GetJsonRetries == 3
\* @retry_async_safe(..., delay=0.3) on get_json, in units of 0.1 s
GetJsonDelay == 3
\* backoff: float = 2.0, the default of retry_async_safe
DefaultBackoff == 2

----------------------------------------------------------------------------
(* Values *)

\* the failures the transport step of get_json raises (lines 132-134):
\* self._client.get, resp.raise_for_status, resp.json
TransportFaults == {"TransportError", "HTTPStatusError", "DecodeError"}

Outcomes == {"ok"} \cup TransportFaults

\* exception objects: the kind, and the call and attempt that raised it
Err(kind, c, n) == [kind |-> kind, call |-> c, attempt |-> n]

\* last_err = None
NoErr == Err("None", 0, 0)

\* the JSON value resp.json() returns to attempt n of call c
Val(c, n) == [call |-> c, attempt |-> n]

NoVal == Val(0, 0)

\* the clients and calls of fetch_demo, in submission order of the gather
DemoClients == {"jp", "hb"}

DemoCallClient == <<"jp", "jp", "jp", "hb", "hb">>

\* a coroutine object of the decorated get_json, not yet started.  Besides the
\* wrapper's locals (attempt, _delay, last_err) a record keeps what the call
\* returned or raised and, as history, the handle it found when it was called,
\* how often the wrapper invoked get_json, how many GETs were issued and the
\* delays passed to asyncio.sleep.
NewCall(k) ==
    [client |-> k, pc |-> "new", attempt |-> 0, _delay |-> 0,
     last_err |-> NoErr, result |-> NoVal, raised |-> NoErr,
     at_call |-> "none", invocations |-> 0, gets |-> 0, slept |-> <<>>]

\* APIClient.__init__: no httpx client yet.  Besides the handle a record counts,
\* as history, the __aenter__ calls, the aclose() calls and the __aexit__ calls.
NewClient == [handle |-> "absent", opened |-> 0, released |-> 0, exits |-> 0]

Calls == DOMAIN call

Terminal == {"Succeeded", "Failed", "Cancelled"}

----------------------------------------------------------------------------
(* retry_async_safe: the wrapper's loop, one call record r of call c *)

\* a loop that stops one attempt short: range(1, retries)
AttemptRangeShort(retries) == 1..(retries - 1)

\* range(1, retries + 1), the attempts the for loop runs through
AttemptRange(retries) == 1..retries

\* a handler that sleeps after every failure, the last one too: no
\* `if attempt < retries`
SleepsAfterAlways(attempt, retries) == TRUE

\* `if attempt < retries`: a failed attempt is followed by a sleep
SleepsAfter(attempt, retries) == attempt < retries

\* a backoff that adds instead of multiplying: `_delay += backoff`
NextDelayAdditive(d, backoff) == d + backoff

\* `_delay *= backoff`
NextDelay(d, backoff) == d * backoff

\* `raise last_err` after the loop; raising None is a TypeError in Python
RaiseLast(r, c) ==
    IF r.last_err = NoErr
    THEN [r EXCEPT !.pc = "Failed", !.raised = Err("TypeError", c, 0)]
    ELSE [r EXCEPT !.pc = "Failed", !.raised = r.last_err]

RECURSIVE LoopStep(_, _, _)

\* a handler that gives up at the first failure: `except Exception: raise`
WrapperFailGivesUp(r, c, e) == RaiseLast([r EXCEPT !.last_err = e], c)

\* a handler that keeps the first error instead of the last:
\* `last_err = last_err or e`
WrapperFailKeepsFirst(r, c, e) ==
    LET r1 == [r EXCEPT !.last_err = IF @ = NoErr THEN e ELSE @]
    IN  IF r1.attempt < policy.retries
        THEN [r1 EXCEPT !.pc = "delaying", !.slept = Append(@, r1._delay)]
        ELSE LoopStep(r1, c, r1.attempt + 1)

\* a handler that filters by kind and gives up on a malformed body:
\* `except DecodeError: raise`
WrapperFailFiltersDecode(r, c, e) ==
    LET r1 == [r EXCEPT !.last_err = e]
    IN  IF e.kind = "DecodeError"
        THEN RaiseLast(r1, c)
        ELSE IF r1.attempt < policy.retries
             THEN [r1 EXCEPT !.pc = "delaying", !.slept = Append(@, r1._delay)]
             ELSE LoopStep(r1, c, r1.attempt + 1)

\* `except Exception as e`: record the error, then sleep (the call suspends)
\* or go on with the loop at once
WrapperFail(r, c, e) ==
    LET r1 == [r EXCEPT !.last_err = e]
    IN  IF SleepsAfter(r1.attempt, policy.retries)
        THEN [r1 EXCEPT !.pc = "delaying", !.slept = Append(@, r1._delay)]
        ELSE LoopStep(r1, c, r1.attempt + 1)

\* a loop that keeps the value but does not return: the backoff follows
WrapperReturnKeepsLooping(r, v) ==
    [r EXCEPT !.result = v, !.pc = "delaying", !.slept = Append(@, r._delay)]

\* `return await func(...)` returned v
WrapperReturn(r, v) == [r EXCEPT !.pc = "Succeeded", !.result = v]

\* get_json up to its first await: the lifecycle check, then the GET is issued.
\* A handle whose aclose() has begun is still referenced by self._client; httpx
\* refuses to send on it.
GetJson(r, c) ==
    LET r1 == [r EXCEPT !.invocations = @ + 1]
        h  == client[r.client].handle
    IN  IF h = "absent"
        THEN WrapperFail(r1, c, Err("NotInitialized", c, r1.attempt))
        ELSE IF h = "closing"
             THEN WrapperFail(r1, c, Err("ClientClosed", c, r1.attempt))
             ELSE [r1 EXCEPT !.pc = "inflight", !.gets = @ + 1]

\* the loop takes its next attempt, or is exhausted and raises
LoopStep(r, c, n) ==
    IF n \in AttemptRange(policy.retries)
    THEN GetJson([r EXCEPT !.attempt = n], c)
    ELSE RaiseLast(r, c)

\* the wrapper is entered: `_delay = delay; last_err = None`, then the loop
WrapperStart(r, c) ==
    LoopStep([r EXCEPT !._delay = policy.delay, !.last_err = NoErr,
                       !.at_call = client[r.client].handle], c, 1)

\* a wrapper whose delay lives in the decorator's closure (`nonlocal delay;
\* delay *= backoff`), shared by the calls of the decorated function: the
\* sleep that returns multiplies the furthest delay any call has reached
WrapperWakeSharedDelay(r, c) ==
    LET delays == {call[k]._delay : k \in Calls}
        shared == CHOOSE d \in delays : \A e \in delays : e <= d
    IN  LoopStep([r EXCEPT !._delay = NextDelay(shared, policy.backoff)], c,
                 r.attempt + 1)

\* asyncio.sleep(_delay) returned: `_delay *= backoff`, then the loop goes on
WrapperWake(r, c) ==
    LoopStep([r EXCEPT !._delay = NextDelay(@, policy.backoff)], c, r.attempt + 1)

\* a wrapper that catches the cancellation like any failure:
\* `except BaseException as e`
WrapperCancelRetried(r, c) == WrapperFail(r, c, Err("CancelledError", c, r.attempt))

\* the task is cancelled while it awaits the GET or the sleep: CancelledError
\* is raised at the await; it is a BaseException, `except Exception` lets it
\* through and it leaves the wrapper
WrapperCancel(r, c) ==
    [r EXCEPT !.pc = "Cancelled", !.raised = Err("CancelledError", c, r.attempt)]

\* the transport answered the GET in flight with outcome o
GetJsonResume(r, c, o) ==
    IF o = "ok"
    THEN WrapperReturn(r, Val(c, r.attempt))
    ELSE WrapperFail(r, c, Err(o, c, r.attempt))

----------------------------------------------------------------------------
(* asyncio.gather *)

\* the result list of gather: the children's results in submission order
GatherResults(cs) == [i \in DOMAIN cs |-> cs[i].result]

\* a gather that collects failures as results: return_exceptions=True
GatherDoneReturnExceptions(cs, c) ==
    IF gather.state # "waiting"
    THEN gather
    ELSE IF \A d \in DOMAIN cs : cs[d].pc \in {"Succeeded", "Failed"}
         THEN [gather EXCEPT !.state = "result", !.results = GatherResults(cs)]
         ELSE gather

\* a gather that lists the results as the children finish
GatherDoneCompletionOrder(cs, c) ==
    LET order == Append(completed, c)
    IN  IF gather.state # "waiting"
        THEN gather
        ELSE IF cs[c].pc = "Failed"
             THEN [gather EXCEPT !.state = "exception", !.err = cs[c].raised]
             ELSE IF \A d \in DOMAIN cs : cs[d].pc = "Succeeded"
                  THEN [gather EXCEPT !.state = "result",
                           !.results = [i \in DOMAIN cs |-> cs[order[i]].result]]
                  ELSE gather

\* gather's done callback for child c, cs the calls after c finished:
\* the first exception is set on the gather at once, the result list
\* when the last child has finished
GatherDone(cs, c) ==
    IF gather.state # "waiting"
    THEN gather
    ELSE IF cs[c].pc = "Failed"
         THEN [gather EXCEPT !.state = "exception", !.err = cs[c].raised]
         ELSE IF \A d \in DOMAIN cs : cs[d].pc = "Succeeded"
              THEN [gather EXCEPT !.state = "result",
                                  !.results = GatherResults(cs)]
              ELSE gather

\* call c moves to record r; a call that finished is reported to the gather
Commit(c, r) ==
    LET cs == [call EXCEPT ![c] = r]
    IN  /\ call' = cs
        /\ IF r.pc \in {"Succeeded", "Failed"}
           THEN /\ completed' = Append(completed, c)
                /\ gather' = GatherDone(cs, c)
           ELSE UNCHANGED <<completed, gather>>

----------------------------------------------------------------------------
(* Steps of a call (a task running the decorated get_json) *)

\* the transport answers the GET of call c; on a connection released under
\* the call the request may also be cut off
Respond(c) ==
    /\ call[c].pc = "inflight"
    /\ \E o \in {script[c][call[c].attempt]} \cup
                (IF client[call[c].client].handle = "open"
                 THEN {} ELSE {"TransportError"}) :
          Commit(c, GetJsonResume(call[c], c, o))
    /\ UNCHANGED <<policy, script, client, orch>>

\* the backoff sleep of call c elapses
Wake(c) ==
    /\ call[c].pc = "delaying"
    /\ Commit(c, WrapperWake(call[c], c))
    /\ UNCHANGED <<policy, script, client, orch>>

----------------------------------------------------------------------------
(* APIClient: the scope of `async with` *)

\* __aenter__: a new httpx.AsyncClient is stored in self._client
AEnter(cl) == [cl EXCEPT !.handle = "open", !.opened = @ + 1]

\* an exit that releases on the normal path only: `if exc_type is None and ...`
AExitBeginOnSuccessOnly(cl) ==
    IF cl.handle = "absent" \/ orch.err # NoErr
    THEN [cl EXCEPT !.exits = @ + 1]
    ELSE [cl EXCEPT !.handle = "closing", !.released = @ + 1, !.exits = @ + 1]

\* an exit without the guard: `await self._client.aclose()` whatever the handle
AExitBeginUnguarded(cl) ==
    [cl EXCEPT !.handle = "closing", !.released = @ + 1, !.exits = @ + 1]

\* __aexit__ up to its await: `if self._client: await self._client.aclose()`
AExitBegin(cl) ==
    IF cl.handle = "absent"
    THEN [cl EXCEPT !.exits = @ + 1]
    ELSE [cl EXCEPT !.handle = "closing", !.released = @ + 1, !.exits = @ + 1]

\* __aexit__ after aclose() returned: `self._client = None`
AExitEnd(cl) == [cl EXCEPT !.handle = "absent"]

----------------------------------------------------------------------------
(* fetch_demo and main *)

\* `async with APIClient("https://jsonplaceholder.typicode.com") as jp`
EnterJp ==
    /\ orch.pc = "start"
    /\ client' = [client EXCEPT !["jp"] = AEnter(@)]
    /\ orch' = [orch EXCEPT !.pc = "jp"]
    /\ UNCHANGED <<policy, script, call, completed, gather>>

\* `async with APIClient("https://httpbin.org") as hb`
EnterHb ==
    /\ orch.pc = "jp"
    /\ client' = [client EXCEPT !["hb"] = AEnter(@)]
    /\ orch' = [orch EXCEPT !.pc = "hb"]
    /\ UNCHANGED <<policy, script, call, completed, gather>>

\* `await asyncio.gather(...)`: the five coroutines become tasks, each runs
\* to its first await before anything else does (both handles are open here,
\* so each call issues its first GET)
Gather ==
    /\ orch.pc = "hb"
    /\ call' = [c \in DOMAIN call |-> WrapperStart(call[c], c)]
    /\ gather' = [gather EXCEPT !.state = "waiting"]
    /\ orch' = [orch EXCEPT !.pc = "gather"]
    /\ UNCHANGED <<policy, script, client, completed>>

\* the gather returned: the tuple is unpacked, the inner scope is left
GatherReturn ==
    /\ orch.pc = "gather"
    /\ gather.state = "result"
    /\ orch' = [orch EXCEPT !.pc = "exit_hb", !.results = gather.results]
    /\ UNCHANGED <<policy, script, client, call, completed, gather>>

\* a gather whose exception is caught and dropped: `except Exception: pass`
GatherRaiseSwallowed ==
    /\ orch.pc = "gather"
    /\ gather.state = "exception"
    /\ orch' = [orch EXCEPT !.pc = "exit_hb"]
    /\ UNCHANGED <<policy, script, client, call, completed, gather>>

\* the gather raised: the exception leaves the inner scope
GatherRaise ==
    /\ orch.pc = "gather"
    /\ gather.state = "exception"
    /\ orch' = [orch EXCEPT !.pc = "exit_hb", !.err = gather.err]
    /\ UNCHANGED <<policy, script, client, call, completed, gather>>

\* hb.__aexit__ then jp.__aexit__, each in its two steps
ExitBegin(k, from, to) ==
    /\ orch.pc = from
    /\ client' = [client EXCEPT ![k] = AExitBegin(@)]
    /\ orch' = [orch EXCEPT !.pc = to]
    /\ UNCHANGED <<policy, script, call, completed, gather>>

ExitEnd(k, from, to) ==
    /\ orch.pc = from
    /\ client' = [client EXCEPT ![k] = AExitEnd(@)]
    /\ orch' = [orch EXCEPT !.pc = to]
    /\ UNCHANGED <<policy, script, call, completed, gather>>

\* scopes left in the order they were entered: the outer client is closed first
ExitHbBeginOuterFirst == ExitBegin("jp", "exit_hb", "closing_hb")

ExitHbBegin == ExitBegin("hb", "exit_hb", "closing_hb")

ExitHbEnd == ExitEnd("hb", "closing_hb", "exit_jp")

ExitJpBegin == ExitBegin("jp", "exit_jp", "closing_jp")

ExitJpEnd == ExitEnd("jp", "closing_jp", "exited")

\* asyncio.run cancels the tasks still pending when its main coroutine ended;
\* CancelledError is no Exception, the wrapper does not catch it
CancelPending(cs) ==
    [c \in DOMAIN cs |->
        IF cs[c].pc \in Terminal THEN cs[c] ELSE WrapperCancel(cs[c], c)]

\* no exception pending: the summary is printed, fetch_demo returns and
\* main prints "Done"
Finish ==
    /\ orch.pc = "exited"
    /\ orch.err = NoErr
    /\ orch' = [orch EXCEPT !.pc = "done", !.summary = TRUE, !.done = TRUE]
    /\ UNCHANGED <<policy, script, client, call, completed, gather>>

\* the exception leaves fetch_demo, asyncio.run and main
Raise ==
    /\ orch.pc = "exited"
    /\ orch.err # NoErr
    /\ call' = CancelPending(call)
    /\ orch' = [orch EXCEPT !.pc = "raised"]
    /\ UNCHANGED <<policy, script, client, completed, gather>>

----------------------------------------------------------------------------
(* A caller of one APIClient (SpecRetry) *)

\* the caller enters the client's scope
CallerOpen(k) ==
    /\ orch.pc = "caller"
    /\ client[k].handle = "absent"
    /\ client[k].opened < MaxOpens
    /\ client' = [client EXCEPT ![k] = AEnter(@)]
    /\ UNCHANGED <<policy, script, call, completed, gather, orch>>

\* the caller leaves the scope: __aexit__ begins
CallerCloseBegin(k) ==
    /\ orch.pc = "caller"
    /\ client[k].handle = "open"
    /\ client' = [client EXCEPT ![k] = AExitBegin(@)]
    /\ UNCHANGED <<policy, script, call, completed, gather, orch>>

\* aclose() returned
CallerCloseEnd(k) ==
    /\ orch.pc = "caller"
    /\ client[k].handle = "closing"
    /\ client' = [client EXCEPT ![k] = AExitEnd(@)]
    /\ UNCHANGED <<policy, script, call, completed, gather, orch>>

\* the caller runs __aexit__ on a client whose handle is absent: the guard
\* `if self._client` is false and __aexit__ returns without awaiting
CallerCloseAgain(k) ==
    /\ orch.pc = "caller"
    /\ client[k].handle = "absent"
    /\ client[k].exits < MaxExits
    /\ client' = [client EXCEPT ![k] = AExitBegin(@)]
    /\ UNCHANGED <<policy, script, call, completed, gather, orch>>

\* the caller awaits get_json (or makes it a task): the wrapper starts
CallerStart(c) ==
    /\ orch.pc = "caller"
    /\ call[c].pc = "new"
    /\ Commit(c, WrapperStart(call[c], c))
    /\ UNCHANGED <<policy, script, client, orch>>

\* the caller cancels the task of call c while it is attempting or delaying
CallerCancel(c) ==
    /\ orch.pc = "caller"
    /\ call[c].pc \in {"inflight", "delaying"}
    /\ Commit(c, WrapperCancel(call[c], c))
    /\ UNCHANGED <<policy, script, client, orch>>

----------------------------------------------------------------------------
(* Specifications *)

IdleGather == [state |-> "idle", err |-> NoErr, results |-> <<>>]

NewOrch(pc) ==
    [pc |-> pc, results |-> <<>>, err |-> NoErr, summary |-> FALSE, done |-> FALSE]

\* the number of leading failures of a script
RECURSIVE Faults(_, _)
Faults(s, n) == IF n > Len(s) \/ s[n] = "ok" THEN 0 ELSE 1 + Faults(s, n + 1)

\* what the transport may answer to the attempts of one call of fetch_demo:
\* some failures, then "ok" (nothing after the first "ok" is ever asked for).
\* The wrapper never looks at the kind of a failure, so the scripts of
\* fetch_demo draw one kind; SpecRetry draws them all.
DemoOutcomes == {"ok", "TransportError"}

DemoScripts ==
    {s \in [1..GetJsonRetries -> DemoOutcomes] :
        \A i \in 1..GetJsonRetries : s[i] = "ok" =>
            \A j \in i..GetJsonRetries : s[j] = "ok"}

\* the scripts of n calls that hold at most `budget` failing attempts in all
RECURSIVE ScriptVectors(_, _)
ScriptVectors(n, budget) ==
    IF n = 0
    THEN {<<>>}
    ELSE UNION {{Append(v, s) : v \in ScriptVectors(n - 1, budget - Faults(s, 1))} :
                   s \in {t \in DemoScripts : Faults(t, 1) <= budget}}

\* @retry_async_safe(retries=3, delay=0.3) on get_json
GetJsonPolicy ==
    [retries |-> GetJsonRetries, delay |-> GetJsonDelay, backoff |-> DefaultBackoff]

Init ==
    /\ policy = GetJsonPolicy
    /\ script \in ScriptVectors(Len(DemoCallClient), MaxFaults)
    /\ client = [k \in DemoClients |-> NewClient]
    /\ call = [c \in DOMAIN DemoCallClient |-> NewCall(DemoCallClient[c])]
    /\ completed = <<>>
    /\ gather = IdleGather
    /\ orch = NewOrch("start")

Next ==
    \/ EnterJp
    \/ EnterHb
    \/ Gather
    \/ \E c \in Calls : Respond(c)
    \/ \E c \in Calls : Wake(c)
    \/ GatherReturn
    \/ GatherRaise
    \/ ExitHbBegin
    \/ ExitHbEnd
    \/ ExitJpBegin
    \/ ExitJpEnd
    \/ Finish
    \/ Raise

Spec == Init /\ [][Next]_vars

InitRetry ==
    /\ policy \in [retries : 0..MaxRetries, delay : (-1)..MaxDelay,
                   backoff : 0..MaxBackoff]
    /\ script \in [{1} -> [1..policy.retries -> Outcomes]]
    /\ client = [k \in {"c"} |-> NewClient]
    /\ call = <<NewCall("c")>>
    /\ completed = <<>>
    /\ gather = IdleGather
    /\ orch = NewOrch("caller")

NextRetry ==
    \/ \E k \in DOMAIN client : CallerOpen(k)
    \/ \E k \in DOMAIN client : CallerCloseBegin(k)
    \/ \E k \in DOMAIN client : CallerCloseEnd(k)
    \/ \E c \in Calls : CallerStart(c)
    \/ \E c \in Calls : Respond(c)
    \/ \E c \in Calls : Wake(c)
    \/ \E c \in Calls : CallerCancel(c)

SpecRetry == InitRetry /\ [][NextRetry]_vars

\* one APIClient under get_json's own policy, with a caller that may also run
\* __aexit__ on a client whose handle is absent
InitClient ==
    /\ policy = GetJsonPolicy
    /\ script \in [{1} -> [1..policy.retries -> Outcomes]]
    /\ client = [k \in {"c"} |-> NewClient]
    /\ call = <<NewCall("c")>>
    /\ completed = <<>>
    /\ gather = IdleGather
    /\ orch = NewOrch("caller")

NextClient ==
    \/ NextRetry
    \/ \E k \in DOMAIN client : CallerCloseAgain(k)

SpecClient == InitClient /\ [][NextClient]_vars

\* one call under every policy of at least one attempt, where no attempt and
\* no delay lasts for ever: the transport answers or times out (the client is
\* built with timeout=self.timeout) and asyncio.sleep returns
InitAttempts ==
    /\ policy \in [retries : 1..MaxRetries, delay : {GetJsonDelay},
                   backoff : {DefaultBackoff}]
    /\ script \in [{1} -> [1..policy.retries -> Outcomes]]
    /\ client = [k \in {"c"} |-> NewClient]
    /\ call = <<NewCall("c")>>
    /\ completed = <<>>
    /\ gather = IdleGather
    /\ orch = NewOrch("caller")

SpecAttempts ==
    /\ InitAttempts
    /\ [][NextRetry]_vars
    /\ WF_vars(\E c \in Calls : Respond(c))
    /\ WF_vars(\E c \in Calls : Wake(c))

----------------------------------------------------------------------------
(* Properties *)

RECURSIVE Pow(_, _)
Pow(b, n) == IF n = 0 THEN 1 ELSE b * Pow(b, n - 1)

\* every attempt of call c so far ran on an open connection that was never
\* released: what get_json did was what the script says
Undisturbed(c) ==
    /\ client[call[c].client].handle = "open"
    /\ client[call[c].client].released = 0
    /\ call[c].gets = call[c].invocations
    /\ call[c].pc # "Cancelled"

\* the operation of call c fails on attempts 1..n-1 and succeeds on attempt n
FailsThenSucceeds(c, n) ==
    /\ n >= 1
    /\ \A i \in 1..(n - 1) : script[c][i] # "ok"
    /\ script[c][n] = "ok"

\* the operation of call c fails on every attempt 1..n
FailsAlways(c, n) == n >= 1 /\ \A i \in 1..n : script[c][i] # "ok"

\* C1: with maxAttempts = N >= 1, a call whose operation fails on attempts
\* 1..N-1 and succeeds on attempt N ends Succeeded with the value of attempt N,
\* after exactly N invocations of the operation.
C1_SucceedsOnLastAttempt ==
    \A c \in Calls :
        (/\ FailsThenSucceeds(c, policy.retries)
         /\ Undisturbed(c)
         /\ call[c].pc \in Terminal)
        => /\ call[c].pc = "Succeeded"
           /\ call[c].result = Val(c, policy.retries)
           /\ call[c].invocations = policy.retries

C1_Witness ==
    \E c \in Calls :
        /\ policy.retries = MaxRetries
        /\ FailsThenSucceeds(c, policy.retries)
        /\ Undisturbed(c)
        /\ call[c].pc = "Succeeded"
        /\ call[c].invocations = MaxRetries

\* C2: with maxAttempts = N >= 1, a call whose operation fails on every attempt
\* ends Failed after exactly N invocations, and what it raises is the error of
\* attempt N itself: not an earlier one, not a wrapper.
C2_RaisesLastError ==
    \A c \in Calls :
        /\ (call[c].pc = "Failed" /\ policy.retries >= 1)
           => /\ call[c].invocations = policy.retries
              /\ call[c].raised = call[c].last_err
              /\ call[c].raised.call = c
              /\ call[c].raised.attempt = policy.retries
        /\ (/\ FailsAlways(c, policy.retries)
            /\ Undisturbed(c)
            /\ call[c].pc \in Terminal)
           => /\ call[c].pc = "Failed"
              /\ call[c].raised =
                    Err(script[c][policy.retries], c, policy.retries)

C2_Witness ==
    \E c \in Calls :
        /\ policy.retries = MaxRetries
        /\ FailsAlways(c, policy.retries)
        /\ Undisturbed(c)
        /\ call[c].pc = "Failed"
        /\ script[c][1] # script[c][policy.retries]
        /\ call[c].raised.kind = script[c][policy.retries]

\* C3: the k-th sleep of a call, the one between failed attempt k and attempt
\* k+1, lasts initialDelay * backoffFactor^(k-1).
C3_BackoffDelays ==
    \A c \in Calls :
        /\ \A k \in DOMAIN call[c].slept :
              call[c].slept[k] = policy.delay * Pow(policy.backoff, k - 1)
        /\ call[c].pc = "delaying" => Len(call[c].slept) = call[c].attempt
        /\ call[c].pc = "inflight" => Len(call[c].slept) = call[c].attempt - 1

C3_Witness ==
    \E c \in Calls :
        /\ policy.delay = 1
        /\ policy.backoff = 2
        /\ call[c].pc = "inflight"
        /\ call[c].attempt = 3
        /\ call[c].slept = <<1, 2>>

\* the scopes of fetch_demo have been left
ScopesLeft == orch.pc \in {"exited", "done", "raised"}

FailedCalls == {c \in Calls : call[c].pc = "Failed"}

\* C4: each scope of fetch_demo releases its connection exactly once and
\* leaves the handle absent, whether the gather returned or raised; when the
\* orchestrator is finished both connections are closed.
C4_ReleasedOncePerScope ==
    /\ \A k \in DOMAIN client :
          /\ client[k].released <= client[k].opened
          /\ client[k].opened <= 1
    /\ orch.pc \in {"exit_jp", "closing_jp"} \cup {"exited", "done", "raised"}
          => client["hb"] = [handle |-> "absent", opened |-> 1, released |-> 1,
                             exits |-> 1]
    /\ ScopesLeft =>
          \A k \in DOMAIN client :
              client[k] = [handle |-> "absent", opened |-> 1, released |-> 1,
                           exits |-> 1]

C4_Witness ==
    /\ orch.pc = "raised"
    /\ orch.err # NoErr
    /\ \A k \in DOMAIN client : client[k].released = 1 /\ client[k].handle = "absent"

\* C5: when exactly one gathered call has exhausted its retries and failed,
\* the gather raises that call's error, fetch_demo leaves with it, and no
\* result tuple is bound, the summary is not printed and main never prints
\* "Done".
C5_OneFailureFailsAll ==
    \A c \in Calls :
        FailedCalls = {c} =>
            /\ call[c].invocations = GetJsonRetries
            /\ gather.state = "exception"
            /\ gather.err = call[c].raised
            /\ orch.pc # "gather" => orch.err = call[c].raised
            /\ orch.results = <<>>
            /\ gather.results = <<>>
            /\ ~orch.summary
            /\ ~orch.done
            /\ orch.pc # "done"

C5_Witness ==
    /\ orch.pc = "raised"
    /\ Cardinality(FailedCalls) = 1
    /\ \E c \in FailedCalls : orch.err = call[c].raised /\ call[c].raised.attempt = 3

\* C6: when all gathered calls succeed, the tuple fetch_demo unpacks has one
\* element per call and its i-th element is the result of the i-th submitted
\* call, whatever the order in which the calls finished.
C6_ResultsInSubmissionOrder ==
    (orch.pc \in {"exit_hb", "closing_hb", "exit_jp", "closing_jp", "exited", "done"}
        /\ orch.err = NoErr)
    => /\ Len(orch.results) = Len(DemoCallClient)
       /\ \A i \in DOMAIN orch.results :
             /\ call[i].pc = "Succeeded"
             /\ orch.results[i] = call[i].result
             /\ orch.results[i] = Val(i, call[i].attempt)

C6_Witness ==
    /\ orch.pc = "done"
    /\ completed = <<5, 2, 4, 1, 3>>
    /\ \A i \in 1..5 : orch.results[i].call = i
    /\ orch.results[5].attempt = 2

\* C7 as stated: once the gather has returned or raised and the scopes begin
\* to close, every launched call is Succeeded or Failed.
C7_AllTerminalAtExit ==
    orch.pc \in {"exit_hb", "closing_hb", "exit_jp", "closing_jp", "exited"}
        => \A c \in Calls : call[c].pc \in {"Succeeded", "Failed"}

OutOfRange(p) == p.retries < 1 \/ p.delay < 0 \/ p.backoff < 1

\* C8 as stated: a NotInitialized failure of get_json (under the retry policy
\* get_json is decorated with) is raised to the caller at once, after one
\* attempt and without a backoff sleep.
C8_LifecycleErrorNotRetried ==
    \A c \in Calls :
        (policy = GetJsonPolicy /\ call[c].last_err.kind = "NotInitialized")
            => /\ call[c].pc = "Failed"
               /\ call[c].raised = call[c].last_err
               /\ call[c].invocations = 1
               /\ call[c].slept = <<>>

\* C9 as stated: a get_json (under the retry policy it is decorated with)
\* called while the client's handle is absent ends in NotInitialized: it
\* returns no value and issues no GET.
C9_CallOutsideScopeFails ==
    \A c \in Calls :
        (policy = GetJsonPolicy /\ call[c].at_call = "absent")
            => /\ call[c].gets = 0
               /\ call[c].pc # "Succeeded"
               /\ call[c].pc \in Terminal
                     => /\ call[c].pc = "Failed"
                        /\ call[c].raised.kind = "NotInitialized"

\* C10 as stated: with out-of-range parameters the policy is rejected when it
\* is constructed: no call is ever started and nothing but a configuration
\* error is ever raised.
C10_ConfigRejectedAtConstruction ==
    OutOfRange(policy) =>
        \A c \in Calls :
            /\ call[c].pc = "new"
            /\ call[c].invocations = 0
            /\ call[c].raised.kind \in {"None", "ConfigError"}

\* C11: hb is opened while jp is open, and the two scopes are closed in
\* reverse order of opening: the release of jp begins only after hb has been
\* released and its handle cleared, on the return path and on the raise path
\* of the gather; once both scopes are left no connection is unreleased.
C11_NestedScopesCloseInReverse ==
    /\ client["hb"].opened >= 1 => client["jp"].opened >= 1
    /\ client["hb"].handle = "open" => client["jp"].handle = "open"
    /\ client["jp"].released >= 1
          => /\ client["hb"].handle = "absent"
             /\ client["hb"].released = 1
    /\ ScopesLeft =>
          \A k \in DOMAIN client :
              client[k].released = client[k].opened /\ client[k].handle = "absent"

C11_Witness ==
    /\ orch.pc = "closing_jp"
    /\ orch.err # NoErr
    /\ client["jp"].handle = "closing"
    /\ client["hb"].handle = "absent"
    /\ client["hb"].released = 1

\* the first of the gathered calls that failed
FirstFailed ==
    LET idx == {i \in DOMAIN completed : call[completed[i]].pc = "Failed"}
    IN  completed[CHOOSE i \in idx : \A j \in idx : i <= j]

\* C12 as stated: the error fetch_demo raises is an AggregateFailure that
\* wraps the failed call's error.
C12_WrappedAsAggregateFailure ==
    orch.pc = "raised" => orch.err.kind = "AggregateFailure"

\* C12 amended: an error escalated from a gathered call is never swallowed:
\* once the gather has raised, fetch_demo carries that error, unwrapped, the
\* very error object of the first call that failed, through both scope exits
\* out to the caller, and never returns normally.
C12_ErrorSurfacedUnwrapped ==
    /\ (gather.state = "exception" /\ orch.pc # "gather")
          => /\ orch.err = gather.err
             /\ orch.err = call[FirstFailed].raised
             /\ orch.err.kind \in TransportFaults \cup {"NotInitialized", "ClientClosed"}
             /\ orch.pc # "done"
             /\ ~orch.done
    /\ FailedCalls # {} => gather.state = "exception"

C12_Witness ==
    /\ orch.pc = "raised"
    /\ orch.err = call[FirstFailed].raised
    /\ orch.err.kind = "TransportError"
    /\ Cardinality(FailedCalls) >= 2

\* the transport answers attempt `call[c].attempt` of call c with outcome o
\* on an open connection, in this step
Answered(c, o) ==
    /\ call[c].pc = "inflight"
    /\ client[call[c].client].handle = "open"
    /\ script[c][call[c].attempt] = o
    /\ call'[c] # call[c]
    /\ call'[c].pc # "Cancelled"

\* C13: when an attempt succeeds the call returns its value at once, with no
\* further sleep, and a call that has returned is never resumed: the
\* operation is not invoked again and nothing more is slept.
C13_ReturnsAtOnce ==
    [][\A c \in Calls :
          /\ Answered(c, "ok") =>
                call'[c] = [call[c] EXCEPT !.pc = "Succeeded",
                                           !.result = Val(c, call[c].attempt)]
          /\ call[c].pc = "Succeeded" => call'[c] = call[c]]_vars

C13_Witness ==
    \E c \in Calls :
        /\ policy.retries = MaxRetries
        /\ call[c].pc = "Succeeded"
        /\ call[c].attempt = 2
        /\ call[c].invocations = 2
        /\ Len(call[c].slept) = 1
        /\ client[call[c].client].handle = "absent"

\* C14: the wrapper retries every kind of failure alike: a TransportError, an
\* HTTPStatusError and a DecodeError each lead to the backoff sleep while
\* attempts remain, and the error a failed call raises is the last one,
\* whatever its kind.
C14_RetriesEveryKind ==
    /\ [][\A c \in Calls : \A kind \in TransportFaults :
             (Answered(c, kind) /\ call[c].attempt < policy.retries)
                => call'[c] = [call[c] EXCEPT
                                  !.pc = "delaying",
                                  !.last_err = Err(kind, c, call[c].attempt),
                                  !.slept = Append(@, call[c]._delay)]]_vars
    /\ [](\A c \in Calls :
             (call[c].pc = "Failed" /\ policy.retries >= 1)
                => /\ call[c].raised = call[c].last_err
                   /\ call[c].invocations = policy.retries
                   /\ Undisturbed(c) =>
                         call[c].raised.kind = script[c][policy.retries])

C14_Witness ==
    \E c \in Calls :
        /\ policy.retries = 3
        /\ script[c][1] = "DecodeError"
        /\ script[c][2] = "HTTPStatusError"
        /\ script[c][3] = "TransportError"
        /\ Undisturbed(c)
        /\ call[c].pc = "Failed"
        /\ call[c].invocations = 3
        /\ call[c].raised = Err("TransportError", c, 3)

\* C15: closing is idempotent: an __aexit__ on a client whose handle is
\* absent releases nothing and leaves the client as it was (handle absent,
\* nothing raised, no await), so however often a scope is closed its
\* connection is released once.
C15_CloseIdempotent ==
    /\ [][\A k \in DOMAIN client :
             (client[k].handle = "absent" /\ client'[k].exits > client[k].exits)
                => client'[k] = [client[k] EXCEPT !.exits = @ + 1]]_vars
    /\ [](\A k \in DOMAIN client :
             /\ client[k].released <= client[k].opened
             /\ client[k].handle = "absent" => client[k].released = client[k].opened)

C15_Witness ==
    \E k \in DOMAIN client :
        /\ client[k].opened = 1
        /\ client[k].released = 1
        /\ client[k].exits = 2
        /\ client[k].handle = "absent"

\* C20: a cancellation is not a retryable failure: a call cancelled while
\* attempting or delaying leaves the wrapper with the CancelledError at once;
\* the cancellation is never recorded as last_err, and a cancelled call is
\* never resumed: no further invocation, no further sleep.
C20_CancellationNotRetried ==
    /\ [](\A c \in Calls :
             /\ call[c].last_err.kind # "CancelledError"
             /\ call[c].pc = "Cancelled"
                   => /\ call[c].raised = Err("CancelledError", c, call[c].attempt)
                      /\ call[c].attempt <= policy.retries
                      /\ call[c].invocations = call[c].attempt)
    /\ [][\A c \in Calls :
             /\ call[c].pc = "Cancelled" => call'[c] = call[c]
             /\ call'[c].raised.kind = "CancelledError"
                   => call'[c].invocations = call[c].invocations
                      /\ call'[c].slept = call[c].slept]_vars

C20_Witness ==
    \E c \in Calls :
        /\ policy.retries = MaxRetries
        /\ call[c].pc = "Cancelled"
        /\ call[c].attempt = 1
        /\ call[c].invocations = 1
        /\ Len(call[c].slept) = 1
        /\ call[c].last_err.kind = "DecodeError"

\* the state of the retry state machine that call c is in: Attempting(n) is a
\* GET of attempt n in flight, Delaying(n) the sleep after attempt n
Started(c) == call[c].pc # "new"

\* in this step the operation of call c was invoked for attempt n and failed
AttemptFailed(c, n) ==
    /\ call'[c].attempt = n
    /\ call'[c].last_err.attempt = n
    /\ call'[c].last_err # NoErr
    /\ \/ call[c].pc = "inflight" /\ call[c].attempt = n
       \/ /\ call[c].pc \in {"new", "delaying"}
          /\ call[c].attempt = n - 1
          /\ call'[c].invocations = call[c].invocations + 1

\* C16: a call is in exactly one of Attempting(n), Delaying(n), Succeeded,
\* Failed (or was cancelled), with 1 <= n <= maxAttempts; Delaying(n) is entered
\* only from a failed attempt n < maxAttempts, Failed only from a failed attempt
\* n = maxAttempts, Attempting(n + 1) only from Delaying(n), Succeeded only from
\* an attempt in flight; and when every attempt and every delay completes, a
\* started call ends in a terminal state.
C16_RetryStateMachine ==
    /\ [](\A c \in Calls :
             /\ call[c].pc \in {"new", "inflight", "delaying"} \cup Terminal
             /\ Started(c) => call[c].attempt \in 1..policy.retries
             /\ call[c].pc = "delaying"
                   => call[c].attempt < policy.retries
                      /\ call[c].last_err.attempt = call[c].attempt
             /\ call[c].pc = "Failed"
                   => call[c].attempt = policy.retries
                      /\ call[c].raised.attempt = policy.retries)
    /\ [][\A c \in Calls :
             call'[c] # call[c] =>
                /\ call'[c].pc # "new"
                /\ call[c].pc \notin Terminal
                /\ call'[c].pc = "inflight"
                      => call[c].pc \in {"new", "delaying"}
                         /\ call'[c].attempt = call[c].attempt + 1
                /\ call'[c].pc = "delaying"
                      => \E n \in 1..(policy.retries - 1) : AttemptFailed(c, n)
                /\ call'[c].pc = "Failed" => AttemptFailed(c, policy.retries)
                /\ call'[c].pc = "Succeeded"
                      => call[c].pc = "inflight"
                         /\ call'[c].attempt = call[c].attempt]_vars
    /\ (\E c \in Calls : Started(c)) ~> (\A c \in Calls : call[c].pc \in Terminal)

C16_Witness ==
    \E c \in Calls :
        /\ policy.retries = MaxRetries
        /\ call[c].pc = "Failed"
        /\ call[c].attempt = MaxRetries
        /\ call[c].invocations = MaxRetries
        /\ Len(call[c].slept) = MaxRetries - 1
        /\ call[c].gets = MaxRetries

\* C19: the wrapper sleeps only between attempts. A call that has made m >= 1
\* attempts has slept m - 1 times when it is attempting or has returned or
\* failed, and m times (m < maxAttempts) while it sleeps after attempt m; the
\* first attempt is preceded by no sleep, every later attempt by exactly one,
\* and a sleep starts only at a failed attempt that is not the last.
C19_SleepsOnlyBetweenAttempts ==
    /\ [](\A c \in Calls :
             call[c].invocations >= 1 =>
                /\ call[c].pc \in {"inflight", "Succeeded", "Failed"}
                      => Len(call[c].slept) = call[c].invocations - 1
                /\ call[c].pc = "delaying"
                      => Len(call[c].slept) = call[c].invocations
                         /\ call[c].invocations < policy.retries
                /\ call[c].pc = "Cancelled"
                      => Len(call[c].slept) \in
                            {call[c].invocations - 1, call[c].invocations}
                /\ Len(call[c].slept) <= policy.retries - 1)
    /\ [][\A c \in Calls :
             /\ call'[c].invocations # call[c].invocations
                   => /\ call'[c].invocations = call[c].invocations + 1
                      /\ Len(call[c].slept) = call[c].invocations
                      /\ call[c].pc = (IF call[c].invocations = 0
                                       THEN "new" ELSE "delaying")
             /\ call'[c].slept # call[c].slept
                   => /\ call'[c].slept = Append(call[c].slept, call'[c]._delay)
                      /\ call'[c].pc = "delaying"
                      /\ call'[c].last_err.attempt = call'[c].attempt
                      /\ call'[c].attempt < policy.retries
                      /\ Len(call'[c].slept) = call'[c].attempt]_vars

C19_Witness ==
    \E c \in Calls :
        /\ policy = [retries |-> MaxRetries, delay |-> 1, backoff |-> MaxBackoff]
        /\ call[c].pc = "Failed"
        /\ call[c].invocations = MaxRetries
        /\ Len(call[c].slept) = MaxRetries - 1
        /\ call[c].slept[1] = 1
        /\ call[c].slept[2] = MaxBackoff

\* C18: no GET is in flight on a client's connection once the release of that
\* connection has begun: a call whose GET is in flight runs on a client whose
\* handle is open.
C18_NoGetOnceReleaseBegun ==
    \A c \in Calls :
        call[c].pc = "inflight" => client[call[c].client].handle = "open"

\* the retry state of one call: the locals attempt, _delay and last_err
RetryRecord(r) == <<r.attempt, r._delay, r.last_err>>

\* C17: the retry state is private to each call. Whatever the other calls
\* have done, a started call's delay is the configured delay multiplied once
\* per sleep of its own, its sleeps are those of its own attempts, its
\* attempt number counts its own invocations and its last error is an error
\* of its own; and a step in which a running call's attempt number, delay or
\* last error changes leaves every other call as it was.
C17_RetryStatePrivate ==
    /\ [](\A c \in Calls :
             Started(c) =>
                /\ call[c]._delay
                      = policy.delay * Pow(policy.backoff, call[c].attempt - 1)
                /\ call[c].attempt = call[c].invocations
                /\ \A i \in 1..Len(call[c].slept) :
                      call[c].slept[i]
                         = policy.delay * Pow(policy.backoff, i - 1)
                /\ \/ call[c].last_err = NoErr /\ call[c].attempt = 1
                   \/ /\ call[c].last_err.call = c
                      /\ call[c].last_err.attempt
                            \in {call[c].attempt - 1, call[c].attempt})
    /\ [][\A c \in Calls :
             (/\ call[c].pc \in {"inflight", "delaying"}
              /\ RetryRecord(call'[c]) # RetryRecord(call[c]))
             => \A d \in Calls \ {c} : call'[d] = call[d]]_vars

C17_Witness ==
    /\ call[1].client = call[2].client
    /\ call[1].pc = "delaying"
    /\ call[1].attempt = 2
    /\ call[1]._delay = GetJsonDelay * DefaultBackoff
    /\ call[1].last_err = Err("TransportError", 1, 2)
    /\ call[2].pc = "delaying"
    /\ call[2].attempt = 1
    /\ call[2]._delay = GetJsonDelay
    /\ call[2].last_err = Err("TransportError", 2, 1)
    /\ call[3].pc = "inflight"
    /\ call[3].last_err = NoErr

====
